---- MODULE Spec2Model ----
(***************************************************************************)
(* Model of the go-bamboo REST client: the plan, variable, result and raw  *)
(* sub-clients (plans.go, results, raw.go).  Every public operation is a   *)
(* synchronous call that builds a request, dispatches it, inspects the     *)
(* status code and returns a (value, response, error) triple.  The server  *)
(* and the transport are the environment: what they deliver to each        *)
(* dispatch is chosen nondeterministically.                                *)
(***************************************************************************)
EXTENDS Integers, Sequences, FiniteSets, TLC

VARIABLES
    baseUrlOk,   \* client configuration: the base URL is set and well formed
    pc,          \* "idle" before the call, "done" after it returned, "panic" if it crashed
    invoked,     \* the operation invoked and its arguments
    requests,    \* the requests the call dispatched, in order
    served,      \* what the transport delivered to each dispatch, in order
    ret          \* the values the call returned

vars == <<baseUrlOk, pc, invoked, requests, served, ret>>

----------------------------------------------------------------------------
(* Bounds of the model *)

\* longest plan list / variable list a response carries
MaxLen == 2

\* largest size / max-results value a collection envelope carries
MaxCount == 2

----------------------------------------------------------------------------
(* Go values *)

StatusOK == 200

\* status codes the stub servers answer with
StatusCodes == {200, 201, 401}

\* a nil and a non-nil slice
NilSlice == [isNil |-> TRUE, elems |-> <<>>]

Slice(s) == [isNil |-> FALSE, elems |-> s]

\* error values: nil, fmt.Errorf / simpleError with its format and arguments,
\* and the errors the pipeline hands up
NilErr == [type |-> "nil"]

SimpleError(format, args) == [type |-> "simpleError", format |-> format, args |-> args]

Errorf(format, args) == [type |-> "errorString", format |-> format, args |-> args]

TransportError == [type |-> "transport"]

DecodeError == [type |-> "decode"]

ConstructionError == [type |-> "construction"]

\* *http.Response: nil, or the response to the n-th request of the call
NilResp == [isNil |-> TRUE]

Response(code, n) == [isNil |-> FALSE, StatusCode |-> code, Status |-> code, req |-> n]

\* what a function hands back: a return with its values, or a run-time panic
Return(val, response, err) == [kind |-> "return", val |-> val, response |-> response, err |-> err]

Panic == [kind |-> "panic"]

\* the outcome of running a handler: the requests it dispatched and how it ended
Run(reqs, out) == [reqs |-> reqs, out |-> out]

----------------------------------------------------------------------------
(* Wire shapes *)

\* Plan, restricted to the fields the projections read; two of the plans
\* share a key
PlanSet ==
    {[Key |-> "K1", ShortName |-> "a"],
     [Key |-> "K1", ShortName |-> "b"],
     [Key |-> "K2", ShortName |-> "a"]}

\* the sequences over S of length k, and of length at most n
RECURSIVE SeqsOfLen(_, _)
SeqsOfLen(S, k) ==
    IF k = 0 THEN {<<>>}
    ELSE {Append(s, x) : s \in SeqsOfLen(S, k - 1), x \in S}

SeqsUpTo(S, n) == UNION {SeqsOfLen(S, k) : k \in 0..n}

PlanLists == {NilSlice} \cup {Slice(s) : s \in SeqsUpTo(PlanSet, MaxLen)}

\* PlanResponse.Plans: a nil pointer, or the collection envelope
NilPlans == [isNil |-> TRUE]

PlansSet == {NilPlans} \cup [isNil : {FALSE}, Size : 0..MaxCount, PlanList : PlanLists]

PlanResponseSet == [Plans : PlansSet]

VarKeys == {"x", "y"}

VarValues == {"", "1", "2"}

PlanVariableSet == [Key : VarKeys, Value : VarValues]

VariableLists == {NilSlice} \cup {Slice(s) : s \in SeqsUpTo(PlanVariableSet, MaxLen)}

\* Plan.VariableContext: a nil pointer, or the variable envelope
NilVariableContext == [isNil |-> TRUE]

VariableContextSet ==
    {NilVariableContext} \cup
    [isNil : {FALSE}, Size : 0..MaxCount, MaxResults : 0..MaxCount, Variable : VariableLists]

PlanWithVarsSet == [VariableContext : VariableContextSet]

----------------------------------------------------------------------------
(* Transport: what a dispatch can meet *)

NoBody == [none |-> TRUE]

TransportFailure == [transportErr |-> TRUE, StatusCode |-> 0, decodable |-> FALSE, body |-> NoBody]

\* a transport failure, a response whose body does not decode, or a response
\* whose body decodes to one of Bodies
Outcomes(Bodies) ==
    {TransportFailure} \cup
    [transportErr : {FALSE}, StatusCode : StatusCodes, decodable : {FALSE}, body : {NoBody}] \cup
    [transportErr : {FALSE}, StatusCode : StatusCodes, decodable : {TRUE}, body : Bodies]

\* Client.NewRequest: fails when the base URL is unset or malformed
NewRequest(method, urlStr) ==
    IF baseUrlOk
    THEN [request |-> [method |-> method, path |-> urlStr, query |-> <<>>], err |-> NilErr]
    ELSE [request |-> [method |-> method, path |-> urlStr, query |-> <<>>], err |-> ConstructionError]

\* request.URL.Query().Add(key, value) followed by RawQuery = Encode()
AddQuery(request, key, value) ==
    [request EXCEPT !.query = Append(@, <<key, value>>)]

\* Client.Do on the n-th request of the call: response and error, and the
\* destination v after decoding (hasDest = a destination was passed)
Do(d, n, hasDest) ==
    IF d.transportErr
    THEN [response |-> NilResp, err |-> TransportError, v |-> NoBody]
    ELSE IF hasDest /\ ~d.decodable
    THEN [response |-> Response(d.StatusCode, n), err |-> DecodeError, v |-> NoBody]
    ELSE [response |-> Response(d.StatusCode, n), err |-> NilErr, v |-> d.body]

\* strconv.Itoa: the decimal digits of n, most significant first
Digits == <<"0", "1", "2", "3", "4", "5", "6", "7", "8", "9">>

RECURSIVE ItoaAbs(_)
ItoaAbs(n) ==
    IF n < 10 THEN <<Digits[n + 1]>>
    ELSE ItoaAbs(n \div 10) \o <<Digits[(n % 10) + 1]>>

Itoa(n) == IF n < 0 THEN <<"-">> \o ItoaAbs(-n) ELSE ItoaAbs(n)

\* emptyStrings: some string of the list is empty
emptyStrings(strs) == \E i \in 1..Len(strs) : strs[i] = ""

----------------------------------------------------------------------------
(* plans.go: PlanService *)

NilOptions == [isNil |-> TRUE]

OptionsSet == {NilOptions} \cup [isNil : {FALSE}, VCSBranch : {"", "feature"}]

CreateBranchMsgEmpty == "Project key and/or branch name cannot be empty"

\* CreateBranch validating the plan key alone
CreateBranchChecksKeyOnly(planKey, branchName, options, d) ==
    IF emptyStrings(<<planKey>>)
    THEN Run(<<>>, Return(FALSE, NilResp, SimpleError(CreateBranchMsgEmpty, <<>>)))
    ELSE
      LET u  == <<"plan/", planKey, "/branch/", branchName, ".json">>
          nr == NewRequest("PUT", u)
      IN IF nr.err # NilErr
         THEN Run(<<>>, Return(FALSE, NilResp, nr.err))
         ELSE
           LET request == IF ~options.isNil /\ options.VCSBranch # ""
                          THEN AddQuery(nr.request, "vcsBranch", options.VCSBranch)
                          ELSE nr.request
               r == Do(d, 1, FALSE)
           IN IF r.err # NilErr
              THEN Run(<<request>>, Return(FALSE, r.response, r.err))
              ELSE IF ~(r.response.StatusCode = StatusOK)
              THEN Run(<<request>>,
                       Return(FALSE, r.response,
                              SimpleError("Create returned %d", <<r.response.StatusCode>>)))
              ELSE Run(<<request>>, Return(TRUE, r.response, NilErr))

\* CreateBranch taking every 2xx status for success
CreateBranchAny2xx(planKey, branchName, options, d) ==
    IF emptyStrings(<<planKey, branchName>>)
    THEN Run(<<>>, Return(FALSE, NilResp, SimpleError(CreateBranchMsgEmpty, <<>>)))
    ELSE
      LET u  == <<"plan/", planKey, "/branch/", branchName, ".json">>
          nr == NewRequest("PUT", u)
      IN IF nr.err # NilErr
         THEN Run(<<>>, Return(FALSE, NilResp, nr.err))
         ELSE
           LET request == IF ~options.isNil /\ options.VCSBranch # ""
                          THEN AddQuery(nr.request, "vcsBranch", options.VCSBranch)
                          ELSE nr.request
               r == Do(d, 1, FALSE)
           IN IF r.err # NilErr
              THEN Run(<<request>>, Return(FALSE, r.response, r.err))
              ELSE IF ~(r.response.StatusCode >= 200 /\ r.response.StatusCode < 300)
              THEN Run(<<request>>,
                       Return(FALSE, r.response,
                              SimpleError("Create returned %d", <<r.response.StatusCode>>)))
              ELSE Run(<<request>>, Return(TRUE, r.response, NilErr))

CreateBranch(planKey, branchName, options, d) ==
    IF emptyStrings(<<planKey, branchName>>)
    THEN Run(<<>>, Return(FALSE, NilResp, SimpleError(CreateBranchMsgEmpty, <<>>)))
    ELSE
      LET u  == <<"plan/", planKey, "/branch/", branchName, ".json">>
          nr == NewRequest("PUT", u)
      IN IF nr.err # NilErr
         THEN Run(<<>>, Return(FALSE, NilResp, nr.err))
         ELSE
           LET request == IF ~options.isNil /\ options.VCSBranch # ""
                          THEN AddQuery(nr.request, "vcsBranch", options.VCSBranch)
                          ELSE nr.request
               r == Do(d, 1, FALSE)
           IN IF r.err # NilErr
              THEN Run(<<request>>, Return(FALSE, r.response, r.err))
              ELSE IF ~(r.response.StatusCode = StatusOK)
              THEN Run(<<request>>,
                       Return(FALSE, r.response,
                              SimpleError("Create returned %d", <<r.response.StatusCode>>)))
              ELSE Run(<<request>>, Return(TRUE, r.response, NilErr))

\* GetNumber counting the plans of the probe's page instead of reading its size
GetNumberCountsPage(d) ==
    LET nr == NewRequest("GET", <<"plan.json">>)
    IN IF nr.err # NilErr
       THEN Run(<<>>, Return(0, NilResp, nr.err))
       ELSE
         LET request == AddQuery(nr.request, "max-results", <<"1">>)
             r == Do(d, 1, TRUE)
         IN IF r.err # NilErr
            THEN Run(<<request>>, Return(0, r.response, r.err))
            ELSE IF r.response.StatusCode # StatusOK
            THEN Run(<<request>>,
                     Return(0, r.response,
                            SimpleError("Getting the number of plans returned %s",
                                        <<r.response.Status>>)))
            ELSE IF r.v.Plans.isNil
            THEN Run(<<request>>, Panic)
            ELSE Run(<<request>>, Return(Len(r.v.Plans.PlanList.elems), r.response, NilErr))

GetNumber(d) ==
    LET nr == NewRequest("GET", <<"plan.json">>)
    IN IF nr.err # NilErr
       THEN Run(<<>>, Return(0, NilResp, nr.err))
       ELSE
         LET request == AddQuery(nr.request, "max-results", <<"1">>)
             r == Do(d, 1, TRUE)
         IN IF r.err # NilErr
            THEN Run(<<request>>, Return(0, r.response, r.err))
            ELSE IF r.response.StatusCode # StatusOK
            THEN Run(<<request>>,
                     Return(0, r.response,
                            SimpleError("Getting the number of plans returned %s",
                                        <<r.response.Status>>)))
            ELSE IF r.v.Plans.isNil
            THEN Run(<<request>>, Panic)
            ELSE Run(<<request>>, Return(r.v.Plans.Size, r.response, NilErr))

\* List going on to the fetch whatever the probe returned
ListIgnoresProbeError(d1, d2) ==
    LET g == GetNumber(d1)
    IN IF g.out.kind = "panic"
       THEN g
       ELSE
         LET numPlans == g.out.val
             nr == NewRequest("GET", <<"plan.json">>)
         IN IF nr.err # NilErr
            THEN Run(g.reqs, Return(NilSlice, NilResp, nr.err))
            ELSE
              LET request == AddQuery(nr.request, "max-results", Itoa(numPlans))
                  reqs == Append(g.reqs, request)
                  r == Do(d2, 2, TRUE)
              IN IF r.err # NilErr
                 THEN Run(reqs, Return(NilSlice, r.response, r.err))
                 ELSE IF r.response.StatusCode # StatusOK
                 THEN Run(reqs,
                          Return(NilSlice, r.response,
                                 SimpleError("Getting plan information returned %s",
                                             <<r.response.Status>>)))
                 ELSE IF r.v.Plans.isNil
                 THEN Run(reqs, Panic)
                 ELSE Run(reqs, Return(r.v.Plans.PlanList, r.response, NilErr))
List(d1, d2) ==
    LET g == GetNumber(d1)
    IN IF g.out.kind = "panic"
       THEN g
       ELSE IF g.out.err # NilErr
       THEN Run(g.reqs, Return(NilSlice, g.out.response, g.out.err))
       ELSE
         LET numPlans == g.out.val
             nr == NewRequest("GET", <<"plan.json">>)
         IN IF nr.err # NilErr
            THEN Run(g.reqs, Return(NilSlice, NilResp, nr.err))
            ELSE
              LET request == AddQuery(nr.request, "max-results", Itoa(numPlans))
                  reqs == Append(g.reqs, request)
                  r == Do(d2, 2, TRUE)
              IN IF r.err # NilErr
                 THEN Run(reqs, Return(NilSlice, r.response, r.err))
                 ELSE IF r.response.StatusCode # StatusOK
                 THEN Run(reqs,
                          Return(NilSlice, r.response,
                                 SimpleError("Getting plan information returned %s",
                                             <<r.response.Status>>)))
                 ELSE IF r.v.Plans.isNil
                 THEN Run(reqs, Panic)
                 ELSE Run(reqs, Return(r.v.Plans.PlanList, r.response, NilErr))

\* ListKeys returning no response with the error of List
ListKeysDropsResponse(d1, d2) ==
    LET l == List(d1, d2)
    IN IF l.out.kind = "panic"
       THEN l
       ELSE IF l.out.err # NilErr
       THEN Run(l.reqs, Return(NilSlice, NilResp, l.out.err))
       ELSE
         LET plans == l.out.val.elems
             keys  == [i \in 1..Len(plans) |-> plans[i].Key]
         IN Run(l.reqs, Return(Slice(keys), l.out.response, NilErr))

ListKeys(d1, d2) ==
    LET l == List(d1, d2)
    IN IF l.out.kind = "panic"
       THEN l
       ELSE IF l.out.err # NilErr
       THEN Run(l.reqs, Return(NilSlice, l.out.response, l.out.err))
       ELSE
         LET plans == l.out.val.elems
             keys  == [i \in 1..Len(plans) |-> plans[i].Key]
         IN Run(l.reqs, Return(Slice(keys), l.out.response, NilErr))

ListNames(d1, d2) ==
    LET l == List(d1, d2)
    IN IF l.out.kind = "panic"
       THEN l
       ELSE IF l.out.err # NilErr
       THEN Run(l.reqs, Return(NilSlice, l.out.response, l.out.err))
       ELSE
         LET plans == l.out.val.elems
             names == [i \in 1..Len(plans) |-> plans[i].ShortName]
         IN Run(l.reqs, Return(Slice(names), l.out.response, NilErr))

\* a Go map: nil, or the set of its entries as a function on its keys
NilMap == [isNil |-> TRUE, keys |-> {}, at |-> <<>>]

EmptyMap == [isNil |-> FALSE, keys |-> {}, at |-> <<>>]

\* m[k] = v
MapPut(m, k, v) ==
    [isNil |-> FALSE,
     keys  |-> m.keys \cup {k},
     at    |-> [x \in m.keys \cup {k} |-> IF x = k THEN v ELSE m.at[x]]]

\* the loop "for _, p := range plans { planMap[p.Key] = p.ShortName }" over the first n plans
RECURSIVE NamesMapLoop(_, _)
NamesMapLoop(plans, n) ==
    IF n = 0 THEN EmptyMap
    ELSE MapPut(NamesMapLoop(plans, n - 1), plans[n].Key, plans[n].ShortName)

NamesMap(d1, d2) ==
    LET l == List(d1, d2)
    IN IF l.out.kind = "panic"
       THEN l
       ELSE IF l.out.err # NilErr
       THEN Run(l.reqs, Return(NilMap, l.out.response, l.out.err))
       ELSE Run(l.reqs,
                Return(NamesMapLoop(l.out.val.elems, Len(l.out.val.elems)),
                       l.out.response, NilErr))

\* GetVars reporting partial results only when fewer were returned than exist
GetVarsOnlyFewer(planKey, d) ==
    LET u  == <<"plan/", planKey>>
        nr == NewRequest("GET", u)
    IN IF nr.err # NilErr
       THEN Run(<<>>, Return(NilSlice, NilResp, nr.err))
       ELSE
         LET request == AddQuery(nr.request, "expand", "variableContext")
             r == Do(d, 1, TRUE)
         IN IF r.err # NilErr
            THEN Run(<<request>>, Return(NilSlice, r.response, r.err))
            ELSE IF r.v.VariableContext.isNil
            THEN Run(<<request>>, Panic)
            ELSE IF r.v.VariableContext.MaxResults < r.v.VariableContext.Size
            THEN Run(<<request>>,
                     Return(r.v.VariableContext.Variable, r.response,
                            Errorf("not all results were returned: %d out of %d",
                                   <<r.v.VariableContext.Size,
                                     r.v.VariableContext.MaxResults>>)))
            ELSE Run(<<request>>, Return(r.v.VariableContext.Variable, r.response, NilErr))

GetVars(planKey, d) ==
    LET u  == <<"plan/", planKey>>
        nr == NewRequest("GET", u)
    IN IF nr.err # NilErr
       THEN Run(<<>>, Return(NilSlice, NilResp, nr.err))
       ELSE
         LET request == AddQuery(nr.request, "expand", "variableContext")
             r == Do(d, 1, TRUE)
         IN IF r.err # NilErr
            THEN Run(<<request>>, Return(NilSlice, r.response, r.err))
            ELSE IF r.v.VariableContext.isNil
            THEN Run(<<request>>, Panic)
            ELSE IF r.v.VariableContext.MaxResults # r.v.VariableContext.Size
            THEN Run(<<request>>,
                     Return(r.v.VariableContext.Variable, r.response,
                            Errorf("not all results were returned: %d out of %d",
                                   <<r.v.VariableContext.Size,
                                     r.v.VariableContext.MaxResults>>)))
            ELSE Run(<<request>>, Return(r.v.VariableContext.Variable, r.response, NilErr))

\* the loop of GetVarValueE returning the value of the last entry with the key
RECURSIVE GetVarValueELast(_, _, _)
GetVarValueELast(vl, name, i) ==
    IF i > Len(vl) THEN [val |-> "", err |-> Errorf("not found", <<>>)]
    ELSE LET rest == GetVarValueELast(vl, name, i + 1)
         IN IF vl[i].Key = name /\ rest.err # NilErr
            THEN [val |-> vl[i].Value, err |-> NilErr]
            ELSE rest

\* the loop of GetVarValueE from entry i on
RECURSIVE GetVarValueELoop(_, _, _)
GetVarValueELoop(vl, name, i) ==
    IF i > Len(vl) THEN [val |-> "", err |-> Errorf("not found", <<>>)]
    ELSE IF vl[i].Key = name THEN [val |-> vl[i].Value, err |-> NilErr]
    ELSE GetVarValueELoop(vl, name, i + 1)

GetVarValueE(vl, name) == GetVarValueELoop(vl.elems, name, 1)

\* the loop of GetVarValue from entry i on
RECURSIVE GetVarValueLoop(_, _, _)
GetVarValueLoop(vl, name, i) ==
    IF i > Len(vl) THEN ""
    ELSE IF vl[i].Key = name THEN ""
    ELSE GetVarValueLoop(vl, name, i + 1)

GetVarValue(vl, name) == GetVarValueLoop(vl.elems, name, 1)

\* the loop of ToMap keeping the first value stored under a key
RECURSIVE ToMapFirstWins(_, _)
ToMapFirstWins(vl, n) ==
    IF n = 0 THEN EmptyMap
    ELSE LET m == ToMapFirstWins(vl, n - 1)
         IN IF vl[n].Key \in m.keys THEN m ELSE MapPut(m, vl[n].Key, vl[n].Value)

\* the loop "for _, v := range vl { retMap[v.Key] = v.Value }" over the first n entries
RECURSIVE ToMapLoop(_, _)
ToMapLoop(vl, n) ==
    IF n = 0 THEN EmptyMap
    ELSE MapPut(ToMapLoop(vl, n - 1), vl[n].Key, vl[n].Value)

ToMap(vl) == ToMapLoop(vl.elems, Len(vl.elems))

----------------------------------------------------------------------------
(* results: ResultService *)

\* Result, restricted to its key
ResultSet == [Key : {"R-1", "R-2"}]

NilResult == [isNil |-> TRUE]

\* &result
ResultPtr(result) == [isNil |-> FALSE, value |-> result]

ResultLists == {NilSlice} \cup {Slice(s) : s \in SeqsUpTo(ResultSet, MaxLen)}

\* ResultsResponse.Results: a nil pointer, or the collection envelope
NilResults == [isNil |-> TRUE]

ResultsSet == {NilResults} \cup [isNil : {FALSE}, Result : ResultLists]

ResultsResponseSet == [Results : ResultsSet]

UnexpectedStatusMsg == "API returned unexpected status code %d"

numberedResultURL(key) == <<"result/", key>>

listResultsURL(key) == <<"result/", key>>

\* strings.Join(elems, sep) from element i on
RECURSIVE JoinFrom(_, _, _)
JoinFrom(elems, sep, i) ==
    IF i > Len(elems) THEN <<>>
    ELSE IF i = Len(elems) THEN <<elems[i]>>
    ELSE <<elems[i], sep>> \o JoinFrom(elems, sep, i + 1)

Join(elems, sep) == JoinFrom(elems, sep, 1)

\* q.Set(key, value)
SetQuery(request, key, value) ==
    [request EXCEPT !.query =
        SelectSeq(@, LAMBDA kv : kv[1] # key) \o <<(<<key, value>>)>>]

NumberedResult(key, d) ==
    LET nr == NewRequest("GET", numberedResultURL(key))
    IN IF nr.err # NilErr
       THEN Run(<<>>, Return(NilResult, NilResp, nr.err))
       ELSE
         LET r == Do(d, 1, TRUE)
         IN IF r.err # NilErr
            THEN Run(<<nr.request>>, Return(NilResult, r.response, r.err))
            ELSE IF r.response.StatusCode # StatusOK
            THEN Run(<<nr.request>>,
                     Return(NilResult, r.response,
                            SimpleError(UnexpectedStatusMsg, <<r.response.StatusCode>>)))
            ELSE Run(<<nr.request>>, Return(ResultPtr(r.v), r.response, r.err))

ListResults(key, d) ==
    LET nr == NewRequest("GET", listResultsURL(key))
    IN IF nr.err # NilErr
       THEN Run(<<>>, Return(NilSlice, NilResp, nr.err))
       ELSE
         LET r == Do(d, 1, TRUE)
         IN IF r.err # NilErr
            THEN Run(<<nr.request>>, Return(NilSlice, r.response, r.err))
            ELSE IF r.response.StatusCode # StatusOK
            THEN Run(<<nr.request>>,
                     Return(NilSlice, r.response,
                            SimpleError(UnexpectedStatusMsg, <<r.response.StatusCode>>)))
            ELSE IF r.v.Results.isNil
            THEN Run(<<nr.request>>, Panic)
            ELSE Run(<<nr.request>>, Return(r.v.Results.Result, r.response, r.err))

\* the common body of GetExpanded and GetLatestExpanded on the path pathStr
Expanded(pathStr, expand, d) ==
    LET nr == NewRequest("GET", pathStr)
    IN IF nr.err # NilErr
       THEN Run(<<>>, Return(NilResult, NilResp, nr.err))
       ELSE
         LET expandQ == Join(expand, ",")
             request == SetQuery(SetQuery(nr.request, "expand", expandQ),
                                 "includeAllStates", "true")
             r == Do(d, 1, TRUE)
         IN IF r.err # NilErr
            THEN Run(<<request>>, Return(NilResult, r.response, r.err))
            ELSE IF r.response.StatusCode # StatusOK
            THEN Run(<<request>>,
                     Return(NilResult, r.response,
                            SimpleError(UnexpectedStatusMsg, <<r.response.StatusCode>>)))
            ELSE Run(<<request>>, Return(ResultPtr(r.v), r.response, r.err))

GetExpanded(key, expand, d) == Expanded(<<"result/", key>>, expand, d)

GetLatestExpanded(key, expand, d) == Expanded(<<"result/", key, "-latest">>, expand, d)

----------------------------------------------------------------------------
(* raw.go: RawService *)

\* p.client.BaseUrl.String(), as one token of a path
BaseUrlString == "http://bamboo"

\* strings.TrimPrefix on token sequences
TrimPrefix(s, prefix) ==
    IF Len(s) >= Len(prefix) /\ SubSeq(s, 1, Len(prefix)) = prefix
    THEN SubSeq(s, Len(prefix) + 1, Len(s))
    ELSE s

\* Client.RawRequest: as NewRequest, without the REST prefix
RawRequest(method, urlStr) ==
    IF baseUrlOk
    THEN [request |-> [method |-> method, path |-> urlStr, query |-> <<>>, header |-> <<>>],
          err |-> NilErr]
    ELSE [request |-> [method |-> method, path |-> urlStr, query |-> <<>>, header |-> <<>>],
          err |-> ConstructionError]

\* Client.RawDo with no destination
RawDo(d, n) ==
    IF d.transportErr
    THEN [response |-> NilResp, err |-> TransportError]
    ELSE [response |-> Response(d.StatusCode, n), err |-> NilErr]

\* a response body stream: its text, and whether it can be read to the end
RawBodies == [text : {"", "payload"}, readable : BOOLEAN]

\* what a raw dispatch can meet: no body is decoded, the stream is handed up
RawOutcomes ==
    {TransportFailure} \cup
    [transportErr : {FALSE}, StatusCode : StatusCodes, decodable : {TRUE}, body : RawBodies]

\* ioutil.ReadAll(response.Body)
ReadAll(body) ==
    IF body.readable
    THEN [body |-> body.text, err |-> NilErr]
    ELSE [body |-> "", err |-> [type |-> "read"]]

GetRaw(path, d) ==
    LET path1 == TrimPrefix(path, <<BaseUrlString>>)
        nr == RawRequest("GET", path1)
    IN IF nr.err # NilErr
       THEN Run(<<>>, Return("", NilResp, nr.err))
       ELSE
         LET request == [nr.request EXCEPT !.header =
                            Append(@, <<"Content-Type", "application/x-www-form-urlencoded">>)]
             r == RawDo(d, 1)
         IN IF r.err # NilErr
            THEN Run(<<request>>, Return("", NilResp, r.err))
            ELSE IF ~(r.response.StatusCode = StatusOK)
            THEN Run(<<request>>,
                     Return("", NilResp,
                            SimpleError("Get returned %d", <<r.response.StatusCode>>)))
            ELSE
              LET b == ReadAll(d.body)
              IN IF b.err # NilErr
                 THEN Run(<<request>>,
                          Return("", r.response, SimpleError("Read body %s", <<b.err>>)))
                 ELSE Run(<<request>>, Return(b.body, r.response, NilErr))

----------------------------------------------------------------------------
(* The calls *)

\* the state after a handler ran to its end on the outcomes ds
Finish(name, args, run, ds) ==
    /\ invoked' = [name |-> name, args |-> args]
    /\ requests' = run.reqs
    /\ served' = SubSeq(ds, 1, Len(run.reqs))
    /\ pc' = IF run.out.kind = "panic" THEN "panic" ELSE "done"
    /\ ret' = run.out
    /\ UNCHANGED baseUrlOk

CallCreateBranch ==
    /\ pc = "idle"
    /\ \E planKey \in {"", "PROJ-PLAN"}, branchName \in {"", "dev"}, options \in OptionsSet,
          d \in Outcomes({NoBody}) :
         Finish("CreateBranch", <<planKey, branchName, options>>,
                CreateBranch(planKey, branchName, options, d), <<d>>)

CallGetNumber ==
    /\ pc = "idle"
    /\ \E d \in Outcomes(PlanResponseSet) :
         Finish("GetNumber", <<>>, GetNumber(d), <<d>>)

CallList ==
    /\ pc = "idle"
    /\ \E d1 \in Outcomes(PlanResponseSet), d2 \in Outcomes(PlanResponseSet) :
         Finish("List", <<>>, List(d1, d2), <<d1, d2>>)

CallListKeys ==
    /\ pc = "idle"
    /\ \E d1 \in Outcomes(PlanResponseSet), d2 \in Outcomes(PlanResponseSet) :
         Finish("ListKeys", <<>>, ListKeys(d1, d2), <<d1, d2>>)

CallListNames ==
    /\ pc = "idle"
    /\ \E d1 \in Outcomes(PlanResponseSet), d2 \in Outcomes(PlanResponseSet) :
         Finish("ListNames", <<>>, ListNames(d1, d2), <<d1, d2>>)

CallNamesMap ==
    /\ pc = "idle"
    /\ \E d1 \in Outcomes(PlanResponseSet), d2 \in Outcomes(PlanResponseSet) :
         Finish("NamesMap", <<>>, NamesMap(d1, d2), <<d1, d2>>)

CallGetVars ==
    /\ pc = "idle"
    /\ \E planKey \in {"PROJ-PLAN"}, d \in Outcomes(PlanWithVarsSet) :
         Finish("GetVars", <<planKey>>, GetVars(planKey, d), <<d>>)

\* the helpers on a variable list return no response; they dispatch nothing
CallGetVarValueE ==
    /\ pc = "idle"
    /\ \E vl \in VariableLists, name \in VarKeys :
         LET r == GetVarValueE(vl, name)
         IN Finish("GetVarValueE", <<vl, name>>, Run(<<>>, Return(r.val, NilResp, r.err)), <<>>)

CallGetVarValue ==
    /\ pc = "idle"
    /\ \E vl \in VariableLists, name \in VarKeys :
         Finish("GetVarValue", <<vl, name>>,
                Run(<<>>, Return(GetVarValue(vl, name), NilResp, NilErr)), <<>>)

CallToMap ==
    /\ pc = "idle"
    /\ \E vl \in VariableLists :
         Finish("ToMap", <<vl>>, Run(<<>>, Return(ToMap(vl), NilResp, NilErr)), <<>>)

ResultKeys == {"PROJ-PLAN-1"}

ExpandLists == {<<>>, <<"artifacts">>, <<"variables", "artifacts">>}

CallNumberedResult ==
    /\ pc = "idle"
    /\ \E key \in ResultKeys, d \in Outcomes(ResultSet) :
         Finish("NumberedResult", <<key>>, NumberedResult(key, d), <<d>>)

CallListResults ==
    /\ pc = "idle"
    /\ \E key \in ResultKeys, d \in Outcomes(ResultsResponseSet) :
         Finish("ListResults", <<key>>, ListResults(key, d), <<d>>)

CallGetExpanded ==
    /\ pc = "idle"
    /\ \E key \in ResultKeys, expand \in ExpandLists, d \in Outcomes(ResultSet) :
         Finish("GetExpanded", <<key, expand>>, GetExpanded(key, expand, d), <<d>>)

CallGetLatestExpanded ==
    /\ pc = "idle"
    /\ \E key \in ResultKeys, expand \in ExpandLists, d \in Outcomes(ResultSet) :
         Finish("GetLatestExpanded", <<key, expand>>, GetLatestExpanded(key, expand, d), <<d>>)

RawPaths == {<<"/foo">>, <<BaseUrlString, "/foo">>}

CallGetRaw ==
    /\ pc = "idle"
    /\ \E path \in RawPaths, d \in RawOutcomes :
         Finish("GetRaw", <<path>>, GetRaw(path, d), <<d>>)

Init ==
    /\ baseUrlOk \in BOOLEAN
    /\ pc = "idle"
    /\ invoked = [name |-> "none", args |-> <<>>]
    /\ requests = <<>>
    /\ served = <<>>
    /\ ret = [kind |-> "none"]

Next ==
    \/ CallCreateBranch
    \/ CallGetNumber
    \/ CallList
    \/ CallListKeys
    \/ CallListNames
    \/ CallNamesMap
    \/ CallGetVars
    \/ CallGetVarValueE
    \/ CallGetVarValue
    \/ CallToMap
    \/ CallNumberedResult
    \/ CallListResults
    \/ CallGetExpanded
    \/ CallGetLatestExpanded
    \/ CallGetRaw

Spec == Init /\ [][Next]_vars

TypeOK ==
    /\ baseUrlOk \in BOOLEAN
    /\ pc \in {"idle", "done", "panic"}
    /\ Len(requests) = Len(served)

----------------------------------------------------------------------------
(* Properties *)

Ended == pc \in {"done", "panic"}

\* the dispatch met a response (no transport failure)
Received(d) == ~d.transportErr

\* the dispatch delivered a status-200 response decoded into a plans envelope
PlansDelivered(d) ==
    /\ Received(d)
    /\ d.decodable
    /\ d.StatusCode = 200
    /\ ~d.body.Plans.isNil

\* the dispatch failed: transport error, non-200 status, or an undecodable body
DispatchFailed(d) == d.transportErr \/ d.StatusCode # 200 \/ ~d.decodable

ProbeRequest == [method |-> "GET", path |-> <<"plan.json">>, query |-> <<(<<"max-results", <<"1">> >>)>>]

FetchRequest(N) == [method |-> "GET", path |-> <<"plan.json">>, query |-> <<(<<"max-results", Itoa(N)>>)>>]

\* C1: when the count probe of List returns the count N with status 200, List
\* issues exactly two requests, the probe with max-results=1 and then the
\* fetch with max-results=N, and when the fetch returns status 200 with its
\* plans envelope List returns that envelope's plan sequence unchanged,
\* whatever its length.
C1_ListTwoRequests ==
    (invoked.name = "List" /\ Ended /\ Len(served) >= 1 /\ PlansDelivered(served[1])) =>
        LET N == served[1].body.Plans.Size
        IN /\ requests = <<ProbeRequest, FetchRequest(N)>>
           /\ Len(served) = 2
           /\ PlansDelivered(served[2]) =>
                /\ pc = "done"
                /\ ret.err = NilErr
                /\ ret.response = Response(200, 2)
                /\ ret.val = served[2].body.Plans.PlanList

\* a List whose fetch answered with a plan sequence of another length than the count
C1_Witness ==
    /\ invoked.name = "List" /\ pc = "done"
    /\ Len(served) = 2 /\ PlansDelivered(served[1]) /\ PlansDelivered(served[2])
    /\ served[1].body.Plans.Size = 2
    /\ Len(served[2].body.Plans.PlanList.elems) = 1
    /\ ret.val = served[2].body.Plans.PlanList

\* the error a failed dispatch hands to its caller, with the status message of the caller
FailureError(d, format) ==
    IF d.transportErr THEN TransportError
    ELSE IF ~d.decodable THEN DecodeError
    ELSE SimpleError(format, <<d.StatusCode>>)

\* the response a dispatch hands to its caller for the n-th request
FailureResponse(d, n) == IF d.transportErr THEN NilResp ELSE Response(d.StatusCode, n)

\* C2: when the count probe of List fails, List performs no second request
\* and returns a nil plan list with the probe's response and the probe's error.
C2_ProbeFailureAborts ==
    (invoked.name = "List" /\ Ended /\ Len(served) >= 1 /\ DispatchFailed(served[1])) =>
        /\ pc = "done"
        /\ requests = <<ProbeRequest>>
        /\ Len(served) = 1
        /\ ret.val = NilSlice
        /\ ret.response = FailureResponse(served[1], 1)
        /\ ret.err = FailureError(served[1], "Getting the number of plans returned %s")

\* a List whose probe was answered 401
C2_Witness ==
    /\ invoked.name = "List" /\ pc = "done"
    /\ Len(served) = 1 /\ Received(served[1]) /\ served[1].StatusCode = 401
    /\ ret.response.StatusCode = 401
    /\ ret.val = NilSlice

Projections == {"ListKeys", "ListNames", "NamesMap"}

\* C3: when a request of the underlying List fails, ListKeys, ListNames and
\* NamesMap return a non-nil error, the failing request's response and a nil
\* result; when List succeeds with plans p1..pk, ListKeys and ListNames return
\* k entries, the i-th being the Key, respectively the ShortName, of pi.
C3_ProjectionsInheritFailure ==
    (invoked.name \in Projections /\ Ended /\ Len(served) >= 1) =>
        LET n == Len(served)
            last == served[n]
        IN /\ DispatchFailed(last) =>
                /\ pc = "done"
                /\ ret.err # NilErr
                /\ ret.err = FailureError(last, IF n = 1
                                                THEN "Getting the number of plans returned %s"
                                                ELSE "Getting plan information returned %s")
                /\ ret.response = FailureResponse(last, n)
                /\ ret.val = IF invoked.name = "NamesMap" THEN NilMap ELSE NilSlice
           /\ (n = 2 /\ PlansDelivered(served[1]) /\ PlansDelivered(served[2])
                 /\ invoked.name \in {"ListKeys", "ListNames"}) =>
                LET plans == served[2].body.Plans.PlanList.elems
                IN /\ pc = "done"
                   /\ ret.err = NilErr
                   /\ ~ret.val.isNil
                   /\ Len(ret.val.elems) = Len(plans)
                   /\ \A i \in 1..Len(plans) :
                        ret.val.elems[i] = IF invoked.name = "ListKeys"
                                           THEN plans[i].Key ELSE plans[i].ShortName

\* ListNames whose fetch was answered 401 after a successful probe
C3_Witness ==
    /\ invoked.name = "ListNames" /\ pc = "done"
    /\ Len(served) = 2 /\ Received(served[2]) /\ served[2].StatusCode = 401
    /\ ret.response = Response(401, 2)
    /\ ret.val = NilSlice
    /\ ret.err # NilErr

\* the dispatch decoded a plan whose variable context is present
VarsDelivered(d) ==
    /\ Received(d)
    /\ d.decodable
    /\ ~d.body.VariableContext.isNil

\* C4: for a decoded plan whose variable context is present, GetVars returns
\* a partial-results error exactly when max-results differs from size, and in
\* both cases returns the decoded variable sequence and the response.
C4_GetVarsPartial ==
    (invoked.name = "GetVars" /\ Ended /\ Len(served) = 1 /\ VarsDelivered(served[1])) =>
        LET ctx == served[1].body.VariableContext
        IN /\ pc = "done"
           /\ ret.val = ctx.Variable
           /\ ret.response = Response(served[1].StatusCode, 1)
           /\ (ret.err # NilErr) <=> (ctx.MaxResults # ctx.Size)
           /\ (ret.err # NilErr) =>
                ret.err = Errorf("not all results were returned: %d out of %d",
                                 <<ctx.Size, ctx.MaxResults>>)

\* GetVars on a truncated variable context: the variables come with the error
C4_Witness ==
    /\ invoked.name = "GetVars" /\ pc = "done"
    /\ Len(served) = 1 /\ VarsDelivered(served[1])
    /\ served[1].body.VariableContext.Size = 2
    /\ served[1].body.VariableContext.MaxResults = 1
    /\ Len(ret.val.elems) = 1
    /\ ret.err.type = "errorString"

\* the positions of the entries of vl with key name
Matches(vl, name) == {i \in 1..Len(vl) : vl[i].Key = name}

Min(S) == CHOOSE x \in S : \A y \in S : x <= y

Max(S) == CHOOSE x \in S : \A y \in S : x >= y

\* C5: GetVarValue(name) returns the value of an entry whose key is name when
\* there is one, and the empty string when there is none.
C5_GetVarValueFinds ==
    (invoked.name = "GetVarValue" /\ pc = "done") =>
        LET vl == invoked.args[1].elems
            name == invoked.args[2]
        IN IF Matches(vl, name) = {}
           THEN ret.val = ""
           ELSE \E i \in Matches(vl, name) : ret.val = vl[i].Value

\* C6: GetVarValueE(name) returns a not-found error with an empty value
\* exactly when no entry has key name, and otherwise a nil error with the
\* value of the first such entry; on the empty list GetVarValue returns the
\* empty string.
C6_GetVarValueEStrict ==
    /\ (invoked.name = "GetVarValueE" /\ pc = "done") =>
          LET vl == invoked.args[1].elems
              name == invoked.args[2]
          IN /\ (ret.err # NilErr) <=> (Matches(vl, name) = {})
             /\ Matches(vl, name) = {} => (ret.val = "" /\ ret.err = Errorf("not found", <<>>))
             /\ Matches(vl, name) # {} => ret.val = vl[Min(Matches(vl, name))].Value
    /\ (invoked.name = "GetVarValue" /\ pc = "done" /\ invoked.args[1].elems = <<>>) =>
          (ret.val = "" /\ ret.err = NilErr)

\* GetVarValueE on a list with two entries of the key and different values
C6_Witness ==
    /\ invoked.name = "GetVarValueE" /\ pc = "done"
    /\ Cardinality(Matches(invoked.args[1].elems, invoked.args[2])) = 2
    /\ invoked.args[1].elems[1].Value # invoked.args[1].elems[2].Value
    /\ ret.val = invoked.args[1].elems[1].Value
    /\ ret.err = NilErr

\* C7: ToMap returns a map whose keys are the keys of the list, each mapped
\* to the value of the last entry with that key.
C7_ToMapLastWins ==
    (invoked.name = "ToMap" /\ pc = "done") =>
        LET vl == invoked.args[1].elems
        IN /\ ~ret.val.isNil
           /\ ret.val.keys = {vl[i].Key : i \in 1..Len(vl)}
           /\ \A k \in ret.val.keys : ret.val.at[k] = vl[Max(Matches(vl, k))].Value

\* ToMap on a list with two entries of one key and different values
C7_Witness ==
    /\ invoked.name = "ToMap" /\ pc = "done"
    /\ Len(invoked.args[1].elems) = 2
    /\ invoked.args[1].elems[1].Key = invoked.args[1].elems[2].Key
    /\ invoked.args[1].elems[1].Value # invoked.args[1].elems[2].Value
    /\ ret.val.at[invoked.args[1].elems[1].Key] = invoked.args[1].elems[2].Value

ValidationFailure ==
    /\ ret.val = FALSE
    /\ ret.response = NilResp
    /\ ret.err = SimpleError(CreateBranchMsgEmpty, <<>>)
    /\ requests = <<>>

\* C8 as stated: CreateBranch with an empty planKey or branchName fails with
\* the validation error, false and a nil response and issues no request; with
\* both non-empty it issues exactly one PUT request.
C8_Original ==
    (invoked.name = "CreateBranch" /\ pc = "done") =>
        IF invoked.args[1] = "" \/ invoked.args[2] = ""
        THEN ValidationFailure
        ELSE Len(requests) = 1 /\ requests[1].method = "PUT"

\* C8 amended: ... with both non-empty it issues exactly one PUT request when
\* the request can be built, and otherwise no request, returning false, a nil
\* response and the builder's error.
C8_CreateBranchValidates ==
    (invoked.name = "CreateBranch" /\ pc = "done") =>
        IF invoked.args[1] = "" \/ invoked.args[2] = ""
        THEN ValidationFailure
        ELSE IF baseUrlOk
        THEN /\ Len(requests) = 1
             /\ requests[1].method = "PUT"
             /\ requests[1].path = <<"plan/", invoked.args[1], "/branch/", invoked.args[2], ".json">>
        ELSE /\ requests = <<>>
             /\ ret.val = FALSE
             /\ ret.response = NilResp
             /\ ret.err = ConstructionError

\* CreateBranch with an empty branch name and options given
C8_Witness ==
    /\ invoked.name = "CreateBranch" /\ pc = "done"
    /\ invoked.args[1] # "" /\ invoked.args[2] = ""
    /\ ~invoked.args[3].isNil
    /\ baseUrlOk
    /\ requests = <<>>
    /\ ret.err.type = "simpleError"

\* C9: on every return of CreateBranch the flag is true exactly when the
\* error is nil, and exactly when the request was dispatched without transport
\* error and answered 200; any other status yields false and the
\* unexpected-status error carrying the code.
C9_CreateBranchFlag ==
    (invoked.name = "CreateBranch" /\ pc = "done") =>
        LET ok == Len(served) = 1 /\ Received(served[1]) /\ served[1].StatusCode = 200
        IN /\ ret.val \in BOOLEAN
           /\ ret.val <=> (ret.err = NilErr)
           /\ ret.val <=> ok
           /\ (Len(served) = 1 /\ Received(served[1]) /\ served[1].StatusCode # 200) =>
                /\ ret.val = FALSE
                /\ ret.err = SimpleError("Create returned %d", <<served[1].StatusCode>>)

\* CreateBranch answered 201
C9_Witness ==
    /\ invoked.name = "CreateBranch" /\ pc = "done"
    /\ Len(served) = 1 /\ Received(served[1]) /\ served[1].StatusCode = 201
    /\ ret.val = FALSE
    /\ ret.err = SimpleError("Create returned %d", <<201>>)

StatusCheckedOps ==
    {"CreateBranch", "GetNumber", "List", "NumberedResult", "ListResults",
     "GetExpanded", "GetLatestExpanded", "GetRaw"}

\* C10: when one of the status-checking operations fails because the
\* response it received carries a status other than 200, it returns a non-nil
\* error and that response, non-nil and with that status.
C10_StatusFailureCarriesResponse ==
    (invoked.name \in StatusCheckedOps /\ pc = "done" /\ Len(served) >= 1) =>
        LET n == Len(served)
            last == served[n]
        IN (Received(last) /\ last.decodable /\ last.StatusCode # 200) =>
              /\ ret.err # NilErr
              /\ ret.response = Response(last.StatusCode, n)

\* the dispatcher delivered the response without error: no transport failure
\* and a body that decoded
DeliveredWithoutError(d) == Received(d) /\ d.decodable

EnvelopeReaders == {"GetNumber", "List", "GetVars"}

\* C11: whenever every response of the call was delivered without error,
\* whatever its status code and payload (a payload without the plans envelope
\* or the variable context included), GetNumber, List and GetVars end by
\* returning a (value, response, error) triple: none of them crashes on an
\* absent envelope.
C11_NoCrashOnAbsentEnvelope ==
    (/\ invoked.name \in EnvelopeReaders
     /\ Ended
     /\ \A i \in 1..Len(served) : DeliveredWithoutError(served[i])) =>
        /\ pc = "done"
        /\ ret.kind = "return"

====
